---- MODULE Spec2Model ----
(***************************************************************************)
(* Model of generate_report.py: the ReportPDF layout helpers, the          *)
(* straight-line build_report sequence, and the two output files.          *)
(*                                                                         *)
(* Lengths are in tenths of a millimetre (20 mm = 200, 5.5 mm = 55).       *)
(* A text is represented by its tag, a number and its length in            *)
(* characters; the cursor, fonts, colours and page breaks are those of     *)
(* the FPDF base class the script drives.                                  *)
(***************************************************************************)
EXTENDS Integers, Sequences, FiniteSets, TLC

\* ------------------------------------------------------------------------
\* Constants of the script
\* ------------------------------------------------------------------------
OUTPUT_PRIMARY == "module_summary.pdf"
OUTPUT_COPY == "Statistical_Analysis_Report.pdf"

PAGE_W == 2100
MARGIN == 200
CONTENT_W == PAGE_W - 2 * MARGIN

FONT_BODY == <<"", 11>>
FONT_BOLD == <<"B", 11>>
FONT_H2 == <<"B", 14>>
FONT_H3 == <<"B", 12>>
FONT_SMALL == <<"", 9>>
FONT_ITALIC == <<"I", 10>>

TITLE_CHARS == 66

\* A4 height, the cell margin and the defaults FPDF() starts with.
PAGE_H == 2970
C_MARGIN == 10
DEFAULT_MARGIN == 100
DEFAULT_BREAK_MARGIN == 200
NB_ALIAS == "{nb}"

\* ------------------------------------------------------------------------
\* Inputs of a run: the figure files, the metrics of the font, the clock
\* ------------------------------------------------------------------------
NumFigures == 5
Figures == 1..NumFigures

\* A figure file is absent or has a height/width ratio in percent; until
\* image() opens it the run has not looked at it.
AspectPct == {50, 75}
Unread == [seen |-> FALSE, exists |-> FALSE, aspect |-> 0]
Missing == [seen |-> TRUE, exists |-> FALSE, aspect |-> 0]
ImageFile(a) == [seen |-> TRUE, exists |-> TRUE, aspect |-> a]
FigureFiles == {Missing} \cup {ImageFile(a) : a \in AspectPct}

\* Average advance width of a Helvetica glyph, in 1/1000 of the font size.
GlyphWidths == {500, 556}

\* ------------------------------------------------------------------------
\* The statements of build_report, in source order
\* ------------------------------------------------------------------------
Stmt(op, line, num, w, h, chars, font, rgb) ==
  [op |-> op, line |-> line, num |-> num, w |-> w, h |-> h,
   chars |-> chars, font |-> font, rgb |-> rgb]

NoFont == <<"", 0>>
NoRGB == <<0, 0, 0>>

S_new(l) == Stmt("new", l, 0, 0, 0, 0, NoFont, NoRGB)
S_alias_nb_pages(l) == Stmt("alias_nb_pages", l, 0, 0, 0, 0, NoFont, NoRGB)
S_set_auto_page_break(l, auto, margin) ==
  Stmt("set_auto_page_break", l, IF auto THEN 1 ELSE 0, 0, margin, 0, NoFont, NoRGB)
S_set_margins(l, left, top, right) ==
  Stmt("set_margins", l, left, right, top, 0, NoFont, NoRGB)
S_add_page(l) == Stmt("add_page", l, 0, 0, 0, 0, NoFont, NoRGB)
S_ln(l, h) == Stmt("ln", l, 0, 0, h, 0, NoFont, NoRGB)
S_set_font(l, f) == Stmt("set_font", l, 0, 0, 0, 0, f, NoRGB)
S_set_text_color(l, rgb) == Stmt("set_text_color", l, 0, 0, 0, 0, NoFont, rgb)
S_set_draw_color(l, rgb) == Stmt("set_draw_color", l, 0, 0, 0, 0, NoFont, rgb)
S_multi_cell(l, w, h, chars) == Stmt("multi_cell", l, 0, w, h, chars, NoFont, NoRGB)
S_cell(l, w, h, chars) == Stmt("cell", l, 0, w, h, chars, NoFont, NoRGB)
S_line(l, x1, x2) == Stmt("line", l, x1, x2, 0, 0, NoFont, NoRGB)
S_section_heading(l, number, chars) ==
  Stmt("section_heading", l, number, 0, 0, chars, NoFont, NoRGB)
S_subsection(l, chars) == Stmt("subsection", l, 0, 0, 0, chars, NoFont, NoRGB)
S_body_text(l, chars) == Stmt("body_text", l, 0, 0, 0, chars, NoFont, NoRGB)
S_bullet(l, chars) == Stmt("bullet", l, 0, 0, 0, chars, NoFont, NoRGB)
S_add_figure(l, fig, chars, width) ==
  Stmt("add_figure", l, fig, width, 0, chars, NoFont, NoRGB)
S_for(l) == Stmt("for", l, 0, 0, 0, 0, NoFont, NoRGB)
S_output(l) == Stmt("output", l, 0, 0, 0, 0, NoFont, NoRGB)
S_copy2(l) == Stmt("copy2", l, 0, 0, 0, 0, NoFont, NoRGB)
S_print(l, label) ==
  Stmt("print", l, IF label = "Generated" THEN 1 ELSE 2, 0, 0, 0, NoFont, NoRGB)

Statements ==
  <<
    S_new(123), S_alias_nb_pages(124), S_set_auto_page_break(125, TRUE, 200),
    S_set_margins(126, 200, 200, 200), S_add_page(131), S_ln(132, 500),
    S_set_font(133, <<"B", 24>>), S_set_text_color(134, <<30, 60, 120>>),
    S_multi_cell(135, 1700, 120, 66), S_ln(136, 100),
    S_set_draw_color(137, <<30, 60, 120>>), S_line(138, 600, 1500),
    S_ln(139, 100), S_set_font(140, <<"", 14>>),
    S_set_text_color(141, <<60, 60, 60>>), S_cell(142, 1700, 80, 13),
    S_cell(143, 1700, 80, 13), S_cell(144, 1700, 80, 43), S_ln(145, 60),
    S_set_font(146, <<"I", 11>>), S_cell(147, 1700, 80, 58),
    S_cell(149, 1700, 80, 49), S_add_page(155),
    S_section_heading(156, 1, 11), S_body_text(157, 496),
    S_body_text(167, 565), S_section_heading(182, 2, 22),
    S_body_text(183, 489), S_body_text(193, 603), S_body_text(204, 344),
    S_section_heading(216, 3, 46), S_body_text(217, 345),
    S_subsection(226, 43), S_body_text(227, 448), S_subsection(237, 52),
    S_body_text(238, 403), S_body_text(246, 823),
    S_section_heading(265, 4, 10), S_subsection(267, 22),
    S_body_text(268, 503), S_subsection(279, 14), S_body_text(280, 597),
    S_subsection(292, 43), S_body_text(293, 218), S_body_text(299, 360),
    S_bullet(307, 237), S_bullet(313, 211), S_bullet(319, 148),
    S_body_text(324, 417), S_subsection(334, 20), S_body_text(335, 430),
    S_subsection(345, 12), S_body_text(346, 461),
    S_section_heading(360, 5, 37), S_subsection(362, 20),
    S_body_text(363, 486), S_add_figure(374, 1, 199, 1600),
    S_add_figure(382, 2, 126, 1500), S_subsection(389, 23),
    S_body_text(390, 593), S_add_figure(403, 3, 135, 1600),
    S_add_figure(411, 4, 175, 1500), S_subsection(419, 44),
    S_body_text(420, 620), S_subsection(433, 56), S_body_text(434, 424),
    S_add_figure(444, 5, 183, 1600), S_subsection(452, 53),
    S_body_text(453, 292), S_bullet(460, 154), S_bullet(465, 315),
    S_bullet(472, 222), S_body_text(478, 332), S_subsection(487, 29),
    S_body_text(488, 502), S_body_text(498, 496),
    S_section_heading(512, 6, 44), S_body_text(513, 402),
    S_body_text(522, 350), S_body_text(530, 262), S_body_text(536, 528),
    S_section_heading(550, 7, 58), S_subsection(554, 19), S_bullet(555, 329),
    S_bullet(563, 377), S_subsection(572, 16), S_bullet(573, 514),
    S_bullet(583, 539), S_subsection(595, 32), S_bullet(596, 322),
    S_bullet(603, 275), S_bullet(610, 198), S_subsection(617, 22),
    S_bullet(618, 371), S_bullet(626, 252), S_bullet(632, 257),
    S_section_heading(642, 8, 13), S_set_font(643, FONT_BODY), S_for(710),
    S_output(717), S_copy2(718), S_print(719, "Generated"),
    S_print(720, "Copied to")
  >>

\* Mutant: pdf.output() is called before the reference loop instead of after.
Program_OutputEarly ==
  [i \in 1..Len(Statements) |->
     CASE Statements[i].op = "for" -> S_output(Statements[i].line)
       [] Statements[i].op = "output" -> S_for(Statements[i].line)
       [] OTHER -> Statements[i]]

\* Mutant: the page break after the title page (line 155) is missing.
Program_NoTitleBreak ==
  SelectSeq(Statements, LAMBDA s : ~(s.op = "add_page" /\ s.line = 155))

\* build_report runs its statements top to bottom, once.
Program == Statements

\* Lengths of the twelve reference entries, and the loop's line height.
references == <<249, 112, 232, 165, 133, 122, 162, 187, 292, 93, 134, 152>>
REF_LINE_H == 55
REF_GAP == 30

\* ------------------------------------------------------------------------
\* The document object: FPDF primitives used by the script
\* ------------------------------------------------------------------------
\* A text: what it is, its number (section or page), its length, the
\* page-count placeholder it contains, and which wrapped line of it this is.
Text(tag, num, chars, nb) ==
  [tag |-> tag, num |-> num, chars |-> chars, nb |-> nb, total |-> 0, part |-> 0]
NoText == Text("", 0, 0, "")

\* The object as ReportPDF() leaves it: no page, default margins, automatic
\* page breaks on, and the library's default page-count alias.
NewPDF ==
  [page |-> 0, x |-> DEFAULT_MARGIN, y |-> DEFAULT_MARGIN,
   font |-> NoFont, tc |-> NoRGB, dc |-> NoRGB,
   alias |-> NB_ALIAS, autoBreak |-> TRUE,
   lMargin |-> DEFAULT_MARGIN, tMargin |-> DEFAULT_MARGIN,
   rMargin |-> DEFAULT_MARGIN, bMargin |-> DEFAULT_BREAK_MARGIN,
   drawn |-> <<>>]

\* F applied to the value of v (v is evaluated once, however often F uses it).
Strict(v, F(_)) == CHOOSE r \in {F(x) : x \in {v}} : TRUE

page_no(p) == p.page
get_y(p) == p.y

alias_nb_pages(p) == [p EXCEPT !.alias = NB_ALIAS]
set_auto_page_break(p, auto, margin) == [p EXCEPT !.autoBreak = auto, !.bMargin = margin]
set_margins(p, left, top, right) ==
  Strict(p, LAMBDA q :
    [q EXCEPT !.lMargin = left, !.tMargin = top, !.rMargin = right,
              !.x = IF q.x < left \/ q.x = q.lMargin THEN left ELSE q.x])
set_font(p, f) == [p EXCEPT !.font = f]
set_text_color(p, rgb) == [p EXCEPT !.tc = rgb]
set_draw_color(p, rgb) == [p EXCEPT !.dc = rgb]
ln(p, h) == Strict(p, LAMBDA q : [q EXCEPT !.x = q.lMargin, !.y = q.y + h])
set_y(p, y) ==
  Strict(p, LAMBDA q : [q EXCEPT !.x = q.lMargin, !.y = IF y >= 0 THEN y ELSE PAGE_H + y])

Draw(p, kind, x, y, w, h, color, txt) ==
  Strict(p, LAMBDA q :
    [q EXCEPT !.drawn = Append(q.drawn,
       [kind |-> kind, page |-> q.page, x |-> x, y |-> y, w |-> w, h |-> h,
        font |-> q.font, color |-> color, txt |-> txt])])

\* line(x1, y, x2, y) as the script calls it: horizontal, at the current y.
line(p, x1, y1, x2, y2) ==
  Strict(p, LAMBDA q : Draw(q, "line", x1, y1, x2 - x1, y2 - y1, q.dc, NoText))

\* One text line of a cell: drawn at the cursor, which then moves right
\* (or to the left margin) and stays on the line (or goes below it).
render_cell(p, w, h, txt, toLMargin, toNext) ==
  Strict(p, LAMBDA q :
    LET cw == IF w = 0 THEN PAGE_W - q.rMargin - q.x ELSE w
    IN [Draw(q, "text", q.x, q.y, cw, h, q.tc, txt)
          EXCEPT !.x = IF toLMargin THEN q.lMargin ELSE q.x + cw,
                 !.y = IF toNext THEN q.y + h ELSE q.y])

\* Mutant: the footer counts pages from zero.
footer_off_by_one(p) ==
  Strict(set_text_color(set_font(set_y(p, 0 - 150), FONT_SMALL), <<140, 140, 140>>),
         LAMBDA c : render_cell(c, 0, 100, Text("footer", page_no(c) - 1, 0, NB_ALIAS),
                                FALSE, FALSE))

\* footer(): called with in_footer set, so its cell never breaks the page.
footer(p) ==
  Strict(set_text_color(set_font(set_y(p, 0 - 150), FONT_SMALL), <<140, 140, 140>>),
         LAMBDA c : render_cell(c, 0, 100, Text("footer", page_no(c), 0, NB_ALIAS),
                                FALSE, FALSE))

\* The running header: title in small grey type, then the separator line.
header_body(p) ==
  LET a == set_font(p, FONT_SMALL)
      b == set_text_color(a, <<100, 100, 100>>)
      c == render_cell(b, 0, 80, Text("header", 0, TITLE_CHARS, ""), FALSE, FALSE)
      d == ln(c, 40)
      e == set_draw_color(d, <<180, 180, 180>>)
      f == Strict(e, LAMBDA q : line(q, MARGIN, get_y(q), PAGE_W - MARGIN, get_y(q)))
  IN ln(f, 60)

\* Mutant: the first-page test is missing.
header_on_every_page(p) == header_body(p)

\* header(): runs at the top margin, where its 8 mm cell cannot overflow.
header(p) == Strict(p, LAMBDA q : IF page_no(q) = 1 THEN q ELSE header_body(q))

\* Mutant: the font the header selected stays selected after the page break.
add_page_font_not_restored(p) ==
  Strict(p, LAMBDA q :
    LET begun ==
          Strict(IF q.page > 0 THEN footer(q) ELSE q,
                 LAMBDA a : [a EXCEPT !.page = a.page + 1, !.x = a.lMargin, !.y = a.tMargin,
                                      !.font = q.font, !.tc = q.tc, !.dc = q.dc])
    IN [header(begun) EXCEPT !.tc = q.tc, !.dc = q.dc])

\* Mutant: the colours the header selected stay selected after the page break.
add_page_colour_not_restored(p) ==
  Strict(p, LAMBDA q :
    LET begun ==
          Strict(IF q.page > 0 THEN footer(q) ELSE q,
                 LAMBDA a : [a EXCEPT !.page = a.page + 1, !.x = a.lMargin, !.y = a.tMargin,
                                      !.font = q.font, !.tc = q.tc, !.dc = q.dc])
    IN [header(begun) EXCEPT !.font = q.font])

\* add_page(): footer of the page being left, new page with the cursor at
\* the top-left margin, header, and the caller's font and colours restored.
add_page(p) ==
  Strict(p, LAMBDA q :
    LET begun ==
          Strict(IF q.page > 0 THEN footer(q) ELSE q,
                 LAMBDA a : [a EXCEPT !.page = a.page + 1, !.x = a.lMargin, !.y = a.tMargin,
                                      !.font = q.font, !.tc = q.tc, !.dc = q.dc])
    IN [header(begun) EXCEPT !.font = q.font, !.tc = q.tc, !.dc = q.dc])

page_break_trigger(p) == PAGE_H - p.bMargin

\* Automatic page break before an element of height h; x is kept.
perform_page_break_if_need_be(p, h) ==
  Strict(p, LAMBDA q :
    IF q.autoBreak /\ q.y + h > page_break_trigger(q)
      THEN [add_page(q) EXCEPT !.x = q.x]
      ELSE q)

cell(p, w, h, txt, toLMargin, toNext) ==
  render_cell(perform_page_break_if_need_be(p, h), w, h, txt, toLMargin, toNext)

CeilDiv(a, b) == (a + b - 1) \div b

\* Number of lines a text of `chars` characters wraps to in a column of
\* width w: its width in the current font over the width inside the cell
\* margins (both scaled to 1/72000 of a tenth of a millimetre per point).
WrapLines(chars, w, font, glyph) ==
  LET need == chars * glyph * font[2] * 254
      room == (w - 2 * C_MARGIN) * 72000
  IN IF chars = 0 THEN 1 ELSE CeilDiv(need, room)

\* Line k of a multi_cell: page-break check, then the cell, cursor below it.
multi_cell_line(p, x0, w, h, txt, k) ==
  render_cell(perform_page_break_if_need_be([p EXCEPT !.x = x0], h),
              w, h, [txt EXCEPT !.part = k], FALSE, TRUE)

\* Lines k..n in turn, each starting from the document the previous left.
RECURSIVE multi_cell_lines(_, _, _, _, _, _, _)
multi_cell_lines(p, x0, w, h, txt, k, n) ==
  IF k > n THEN p
  ELSE Strict(multi_cell_line(p, x0, w, h, txt, k),
              LAMBDA q : multi_cell_lines(q, x0, w, h, txt, k + 1, n))

\* multi_cell(): one cell per wrapped line, each with its own page-break
\* check; the cursor ends below the last line, right of the column.
multi_cell(p, w, h, txt, glyph) ==
  Strict(p, LAMBDA q :
    Strict(WrapLines(txt.chars, w, q.font, glyph), LAMBDA n :
      [multi_cell_lines(q, q.x, w, h, txt, 1, n) EXCEPT !.x = q.x + w]))

\* image(path, x=x, w=w): height from the file's aspect ratio, placed at
\* the current y (after a page break if it does not fit), y moves below.
image(p, aspect, x, w) ==
  Strict((w * aspect) \div 100, LAMBDA h :
    Strict(perform_page_break_if_need_be(p, h), LAMBDA a :
      [Draw(a, "image", x, a.y, w, h, NoRGB, NoText) EXCEPT !.y = a.y + h]))

\* ------------------------------------------------------------------------
\* ReportPDF helpers
\* ------------------------------------------------------------------------
\* Mutant: the heading is numbered one too high.
section_heading_off_by_one(p, number, chars) ==
  LET a == ln(p, 40)
      b == set_font(a, FONT_H2)
      c == set_text_color(b, <<30, 60, 120>>)
      d == cell(c, 0, 100, Text("section_heading", number + 1, chars, ""), TRUE, TRUE)
      e == set_draw_color(d, <<30, 60, 120>>)
      f == Strict(e, LAMBDA q : line(q, MARGIN, get_y(q), MARGIN + CONTENT_W, get_y(q)))
      g == ln(f, 30)
  IN set_text_color(g, <<0, 0, 0>>)

section_heading(p, number, chars) ==
  LET a == ln(p, 40)
      b == set_font(a, FONT_H2)
      c == set_text_color(b, <<30, 60, 120>>)
      d == cell(c, 0, 100, Text("section_heading", number, chars, ""), TRUE, TRUE)
      e == set_draw_color(d, <<30, 60, 120>>)
      f == Strict(e, LAMBDA q : line(q, MARGIN, get_y(q), MARGIN + CONTENT_W, get_y(q)))
      g == ln(f, 30)
  IN set_text_color(g, <<0, 0, 0>>)

subsection(p, chars) ==
  LET a == ln(p, 20)
      b == set_font(a, FONT_H3)
      c == set_text_color(b, <<50, 80, 140>>)
      d == cell(c, 0, 80, Text("subsection", 0, chars, ""), TRUE, TRUE)
      e == ln(d, 10)
  IN set_text_color(e, <<0, 0, 0>>)

body_text(p, chars, glyph) ==
  LET a == set_font(p, FONT_BODY)
      b == multi_cell(a, CONTENT_W, 60, Text("body_text", 0, chars, ""), glyph)
  IN ln(b, 20)

EST_LIMIT == 2700
\* Mutant: the estimate leaves no allowance for the caption.
EstHeight_no_allowance(width) == (width * 6) \div 10

EstHeight(width) == (width * 6) \div 10 + 150

\* Mutant: the overflow check fires already when the estimate reaches the limit.
add_figure_before_image_ge(p, width) ==
  Strict(p, LAMBDA q :
    IF get_y(q) + EstHeight(width) >= EST_LIMIT THEN add_page(q) ELSE q)

\* Mutant: no overflow check before the image.
add_figure_before_image_unchecked(p, width) == p

\* add_figure up to the image() call, which needs the file.
add_figure_before_image(p, width) ==
  Strict(p, LAMBDA q :
    IF get_y(q) + EstHeight(width) > EST_LIMIT THEN add_page(q) ELSE q)

\* Mutant: the image is placed at the left margin.
add_figure_left_aligned(p, aspect, chars, width, glyph) ==
  LET a == add_figure_before_image(p, width)
      x == MARGIN
      b == image(a, aspect, x, width)
      c == ln(b, 20)
      d == set_font(c, FONT_ITALIC)
      e == set_text_color(d, <<80, 80, 80>>)
      f == multi_cell(e, CONTENT_W, 50, Text("caption", 0, chars, ""), glyph)
      g == set_text_color(f, <<0, 0, 0>>)
  IN ln(g, 40)

add_figure(p, aspect, chars, width, glyph) ==
  LET a == add_figure_before_image(p, width)
      x == (PAGE_W - width) \div 2
      b == image(a, aspect, x, width)
      c == ln(b, 20)
      d == set_font(c, FONT_ITALIC)
      e == set_text_color(d, <<80, 80, 80>>)
      f == multi_cell(e, CONTENT_W, 50, Text("caption", 0, chars, ""), glyph)
      g == set_text_color(f, <<0, 0, 0>>)
  IN ln(g, 40)

\* Mutant: the text is wrapped in the full content width.
bullet_full_width(p, chars, glyph) ==
  LET a == set_font(p, FONT_BODY)
      b == cell(a, 60, 60, Text("dash", 0, 1, ""), FALSE, FALSE)
      c == multi_cell(b, CONTENT_W, 60, Text("bullet", 0, chars, ""), glyph)
  IN ln(c, 10)

bullet(p, chars, glyph) ==
  LET a == set_font(p, FONT_BODY)
      b == cell(a, 60, 60, Text("dash", 0, 1, ""), FALSE, FALSE)
      c == multi_cell(b, CONTENT_W - 60, 60, Text("bullet", 0, chars, ""), glyph)
  IN ln(c, 10)

\* Body of the reference loop for one entry.
reference_entry(p, chars, glyph) ==
  ln(multi_cell(p, CONTENT_W, REF_LINE_H, Text("reference", 0, chars, ""), glyph), REF_GAP)

\* ------------------------------------------------------------------------
\* Finalisation and the files
\* ------------------------------------------------------------------------
\* close(): the footer of the last page (a page is added if none exists).
close(p) == Strict(p, LAMBDA q : footer(IF q.page = 0 THEN add_page(q) ELSE q))

\* The registered alias is replaced by the page count in every text.
substitute_page_number(items, alias, n) ==
  [i \in 1..Len(items) |->
     IF alias # "" /\ items[i].txt.nb = alias
       THEN [items[i] EXCEPT !.txt.nb = "", !.txt.total = n]
       ELSE items[i]]

\* The bytes output() produces: the resolved pages and the creation date.
Rendered(p, now) ==
  Strict(close(p), LAMBDA c :
    [kind |-> "pdf", pages |-> c.page,
     content |-> substitute_page_number(c.drawn, c.alias, c.page),
     created |-> now])

Absent == [kind |-> "absent", pages |-> 0, content |-> <<>>, created |-> 0]
Old == [kind |-> "old", pages |-> 0, content |-> <<>>, created |-> 0]
Truncated == [kind |-> "truncated", pages |-> 0, content |-> <<>>, created |-> 0]

\* A file operation succeeds, is refused before touching the target, or
\* fails part-way and leaves a truncated target.
IOOutcomes == {"ok", "denied", "truncated"}

write_file(old, data, outcome) ==
  CASE outcome = "ok" -> data
    [] outcome = "denied" -> old
    [] OTHER -> Truncated

\* Mutant: source and target swapped.
copy2_swapped(files, outcome) ==
  [files EXCEPT !.primary = write_file(files.primary, files.alias, outcome)]

\* shutil.copy2: the target receives the bytes found at the source path.
copy2(files, outcome) ==
  [files EXCEPT !.alias = write_file(files.alias, files.primary, outcome)]

\* ------------------------------------------------------------------------
\* State
\* ------------------------------------------------------------------------
VARIABLES
  pc,       \* index in Program of the next statement of build_report
  state,    \* "notbuilt", "building", "finalized" or "failed"
  err,      \* the step that raised: "none", "image", "write" or "copy"
  pdf,      \* the ReportPDF object
  refIdx,   \* position of the reference loop
  fs,       \* the two output paths
  before,   \* the two output paths as the run found them
  stdout,   \* the lines printed
  fsops,    \* the file operations attempted, in order
  emitted,  \* the statements completed, in order
  figs,     \* the figure files
  glyph,    \* the font metric
  clock,    \* the time
  run,      \* number of the current invocation
  prev      \* what the previous invocation produced

vars == <<pc, state, err, pdf, refIdx, fs, before, stdout, fsops, emitted,
          figs, glyph, clock, run, prev>>

inputs == <<glyph, run, prev, before>>

NoRun == [valid |-> FALSE, emitted |-> <<>>, pages |-> 0,
          primary |-> Absent, alias |-> Absent]

Init ==
  /\ pc = 1
  /\ state = "notbuilt"
  /\ err = "none"
  /\ pdf = NewPDF
  /\ refIdx = 1
  /\ fs \in {[primary |-> Absent, alias |-> Absent], [primary |-> Old, alias |-> Old]}
  /\ before = fs
  /\ stdout = <<>>
  /\ fsops = <<>>
  /\ emitted = <<>>
  /\ figs = [i \in Figures |-> Unread]
  /\ glyph \in GlyphWidths
  /\ clock = 0
  /\ run = 1
  /\ prev = NoRun

\* ------------------------------------------------------------------------
\* build_report, one statement per step
\* ------------------------------------------------------------------------
Done == pc > Len(Program)

At(op) ==
  /\ state \in {"building", "finalized"}
  /\ ~Done
  /\ Program[pc].op = op

\* An entry of the record of completed statements: what ran, and where the
\* cursor of document p stood when it started.
Entry(what, num, p) == [op |-> what, num |-> num, page |-> p.page, y |-> p.y]

Completes(what, num) ==
  /\ pc' = pc + 1
  /\ emitted' = Append(emitted, Entry(what, num, pdf))

\* A statement that only drives the document object.
EmitFigure(p) ==
  /\ pdf' = p
  /\ Completes(Program[pc].op, Program[pc].num)
  /\ UNCHANGED <<state, err, refIdx, fs, stdout, fsops, clock, inputs>>

Emit(p) == EmitFigure(p) /\ UNCHANGED figs

\* Mutant: the exception is caught and the run goes on.
Raise_swallowed(what) ==
  /\ err' = what
  /\ Completes("raised", 0)
  /\ UNCHANGED state

Raise(what) ==
  /\ state' = "failed"
  /\ err' = what
  /\ UNCHANGED <<pc, emitted>>

\* Mutant: the document object is a module-level one, kept between calls.
Construct_reuse ==
  /\ state = "notbuilt"
  /\ Program[pc].op = "new"
  /\ state' = "building"
  /\ pdf' = pdf
  /\ Completes("new", 0)
  /\ UNCHANGED <<err, refIdx, fs, stdout, fsops, clock, figs, inputs>>

\* pdf = ReportPDF(): a fresh document object.
Construct ==
  /\ state = "notbuilt"
  /\ Program[pc].op = "new"
  /\ state' = "building"
  /\ pdf' = NewPDF
  /\ pc' = pc + 1
  /\ emitted' = Append(emitted, Entry("new", 0, NewPDF))
  /\ UNCHANGED <<err, refIdx, fs, stdout, fsops, clock, figs, inputs>>

AliasNbPages == At("alias_nb_pages") /\ Emit(alias_nb_pages(pdf))

SetAutoPageBreak ==
  /\ At("set_auto_page_break")
  /\ Emit(set_auto_page_break(pdf, Program[pc].num = 1, Program[pc].h))

SetMargins ==
  /\ At("set_margins")
  /\ Emit(set_margins(pdf, Program[pc].num, Program[pc].h, Program[pc].w))

AddPage == At("add_page") /\ Emit(add_page(pdf))

Ln == At("ln") /\ Emit(ln(pdf, Program[pc].h))

SetFont == At("set_font") /\ Emit(set_font(pdf, Program[pc].font))

SetTextColor == At("set_text_color") /\ Emit(set_text_color(pdf, Program[pc].rgb))

SetDrawColor == At("set_draw_color") /\ Emit(set_draw_color(pdf, Program[pc].rgb))

Line ==
  /\ At("line")
  /\ Emit(line(pdf, Program[pc].num, get_y(pdf), Program[pc].w, get_y(pdf)))

MultiCell ==
  /\ At("multi_cell")
  /\ Emit(multi_cell(pdf, Program[pc].w, Program[pc].h,
                     Text("title", 0, Program[pc].chars, ""), glyph))

Cell ==
  /\ At("cell")
  /\ Emit(cell(pdf, Program[pc].w, Program[pc].h,
               Text("title", 0, Program[pc].chars, ""), TRUE, TRUE))

SectionHeading ==
  /\ At("section_heading")
  /\ Emit(section_heading(pdf, Program[pc].num, Program[pc].chars))

Subsection == At("subsection") /\ Emit(subsection(pdf, Program[pc].chars))

BodyText == At("body_text") /\ Emit(body_text(pdf, Program[pc].chars, glyph))

Bullet == At("bullet") /\ Emit(bullet(pdf, Program[pc].chars, glyph))

\* What opening figure file i finds: the same as on any earlier look.
Observe(i) == IF figs[i] = Unread THEN FigureFiles ELSE {figs[i]}

\* add_figure: image() raises when the file is missing, after the overflow
\* check of the helper has run.
AddFigure ==
  /\ At("add_figure")
  /\ \E f \in Observe(Program[pc].num) :
       LET s == Program[pc]
       IN /\ figs' = [figs EXCEPT ![s.num] = f]
          /\ IF f = Missing
               THEN /\ pdf' = add_figure_before_image(pdf, s.w)
                    /\ Raise("image")
                    /\ UNCHANGED <<refIdx, fs, stdout, fsops, clock, inputs>>
               ELSE EmitFigure(add_figure(pdf, f.aspect, s.chars, s.w, glyph))

\* One iteration of `for ref in references`; the last one leaves the loop.
ReferenceLoop ==
  /\ At("for")
  /\ refIdx <= Len(references)
  /\ pdf' = reference_entry(pdf, references[refIdx], glyph)
  /\ refIdx' = refIdx + 1
  /\ emitted' = Append(emitted, Entry("reference", refIdx, pdf))
  /\ pc' = IF refIdx = Len(references) THEN pc + 1 ELSE pc
  /\ UNCHANGED <<state, err, fs, stdout, fsops, clock, figs, inputs>>

\* Mutant: a failed write is ignored and the run goes on.
Output_continue_on_error ==
  /\ At("output")
  /\ \E outcome \in IOOutcomes :
       /\ pdf' = close(pdf)
       /\ fsops' = Append(fsops, [op |-> "output", path |-> OUTPUT_PRIMARY, outcome |-> outcome])
       /\ fs' = [fs EXCEPT !.primary = write_file(fs.primary, Rendered(pdf, clock), outcome)]
       /\ state' = "finalized"
       /\ Completes("output", 0)
       /\ UNCHANGED err
  /\ UNCHANGED <<refIdx, stdout, clock, figs, inputs>>

\* pdf.output(OUTPUT_PRIMARY): finalise, then write the primary file.
Output ==
  /\ At("output")
  /\ \E outcome \in IOOutcomes :
       /\ pdf' = close(pdf)
       /\ fsops' = Append(fsops, [op |-> "output", path |-> OUTPUT_PRIMARY, outcome |-> outcome])
       /\ fs' = [fs EXCEPT !.primary = write_file(fs.primary, Rendered(pdf, clock), outcome)]
       /\ IF outcome = "ok"
            THEN /\ state' = "finalized"
                 /\ Completes("output", 0)
                 /\ UNCHANGED err
            ELSE Raise("write")
  /\ UNCHANGED <<refIdx, stdout, clock, figs, inputs>>

\* Mutant: a failed copy is ignored and the run goes on.
Copy_ignore_errors ==
  /\ At("copy2")
  /\ \E outcome \in IOOutcomes :
       /\ fsops' = Append(fsops, [op |-> "copy2", path |-> OUTPUT_COPY, outcome |-> outcome])
       /\ fs' = copy2(fs, outcome)
       /\ Completes("copy2", 0)
       /\ UNCHANGED <<state, err>>
  /\ UNCHANGED <<pdf, refIdx, stdout, clock, figs, inputs>>

\* Mutant: after a failed copy the run goes back to write the primary again.
Copy_retry ==
  /\ At("copy2")
  /\ \E outcome \in IOOutcomes :
       /\ fs' = copy2(fs, outcome)
       /\ IF outcome = "ok"
            THEN /\ Completes("copy2", 0)
                 /\ fsops' = Append(fsops, [op |-> "copy2", path |-> OUTPUT_COPY, outcome |-> outcome])
                 /\ UNCHANGED <<state, err>>
            ELSE /\ state' = "building"
                 /\ pc' = pc - 1
                 /\ UNCHANGED <<err, emitted, fsops>>
  /\ UNCHANGED <<pdf, refIdx, stdout, clock, figs, inputs>>

\* shutil.copy2(OUTPUT_PRIMARY, OUTPUT_COPY)
Copy ==
  /\ At("copy2")
  /\ \E outcome \in IOOutcomes :
       /\ fsops' = Append(fsops, [op |-> "copy2", path |-> OUTPUT_COPY, outcome |-> outcome])
       /\ fs' = copy2(fs, outcome)
       /\ IF outcome = "ok"
            THEN Completes("copy2", 0) /\ UNCHANGED <<state, err>>
            ELSE Raise("copy")
  /\ UNCHANGED <<pdf, refIdx, stdout, clock, figs, inputs>>

print(out, label, path) == Append(out, <<label, path>>)

PrintGenerated ==
  /\ At("print")
  /\ Program[pc].num = 1
  /\ stdout' = print(stdout, "Generated", OUTPUT_PRIMARY)
  /\ Completes("print", 1)
  /\ UNCHANGED <<state, err, pdf, refIdx, fs, fsops, clock, figs, inputs>>

PrintCopied ==
  /\ At("print")
  /\ Program[pc].num = 2
  /\ stdout' = print(stdout, "Copied to", OUTPUT_COPY)
  /\ Completes("print", 2)
  /\ UNCHANGED <<state, err, pdf, refIdx, fs, fsops, clock, figs, inputs>>

Next ==
  \/ Construct
  \/ AliasNbPages
  \/ SetAutoPageBreak
  \/ SetMargins
  \/ AddPage
  \/ Ln
  \/ SetFont
  \/ SetTextColor
  \/ SetDrawColor
  \/ Line
  \/ MultiCell
  \/ Cell
  \/ SectionHeading
  \/ Subsection
  \/ BodyText
  \/ Bullet
  \/ AddFigure
  \/ ReferenceLoop
  \/ Output
  \/ Copy
  \/ PrintGenerated
  \/ PrintCopied

Spec == Init /\ [][Next]_vars

\* The interpreter runs the next statement whenever there is one.
FairSpec == Spec /\ WF_vars(Next)

\* ------------------------------------------------------------------------
\* Invoking the script again
\* ------------------------------------------------------------------------
MaxRuns == 2

Outcome ==
  [valid |-> Done, emitted |-> emitted, pages |-> pdf.page,
   primary |-> fs.primary, alias |-> fs.alias]

\* After a completed run build_report is called again, in the same second
\* or a later one: it starts at its first statement, with the figure files
\* unchanged and the output files as the previous call left them.
Rerun ==
  /\ run < MaxRuns
  /\ Done
  /\ run' = run + 1
  /\ prev' = Outcome
  /\ before' = fs
  /\ pc' = 1
  /\ state' = "notbuilt"
  /\ err' = "none"
  /\ refIdx' = 1
  /\ stdout' = <<>>
  /\ fsops' = <<>>
  /\ emitted' = <<>>
  /\ clock' \in {clock, clock + 1}
  /\ UNCHANGED <<pdf, fs, figs, glyph>>

NextRerun == Next \/ Rerun

SpecRerun == Init /\ [][NextRerun]_vars

TypeOK ==
  /\ pc \in 1..(Len(Program) + 1)
  /\ state \in {"notbuilt", "building", "finalized", "failed"}
  /\ err \in {"none", "image", "write", "copy"}
  /\ refIdx \in 1..(Len(references) + 1)
  /\ run \in 1..MaxRuns

\* ------------------------------------------------------------------------
\* The helpers of ReportPDF, called with any argument at any cursor
\* ------------------------------------------------------------------------
MaxCalls == 1

\* Vertical positions of the cursor when a helper is called: the top of a
\* page below the header, both sides of the limits of add_figure for the
\* widths below, and the bottom of the page on both sides of the trigger.
CursorYs == {300, 1530, 1535, 1580, 1590, 1595, 1650, 1655, 2100, 2600, 2710, 2770}

\* Widths a caller may request for a figure: the default, the two the report
\* uses, a narrow one and one wider than the content area.
Widths == {1000, CONTENT_W - 200, CONTENT_W - 100, CONTENT_W, CONTENT_W + 100}

\* Image files in the ratio the estimate assumes, flatter, taller, and in
\* portrait format, taller than a page.
HelperAspects == AspectPct \cup {60, 160}

\* Lengths of the captions (one, three, four and six lines) and of the texts.
CaptionLengths == {40, 199, 330, 486}
TextLengths == {60, 300, 900}

\* The document after lines 123-131 and 155: set up, title page begun,
\* first body page begun.
Opened ==
  add_page(add_page(
    set_margins(set_auto_page_break(alias_nb_pages(NewPDF), TRUE, MARGIN),
                MARGIN, MARGIN, MARGIN)))

\* The same with the cursor further down the page, in the body font.
OpenedAt(y) == [set_font(Opened, FONT_BODY) EXCEPT !.y = y]

InitHelpers ==
  /\ pc = 1
  /\ state = "building"
  /\ err = "none"
  /\ pdf \in {OpenedAt(y) : y \in CursorYs}
  /\ refIdx = 1
  /\ fs = [primary |-> Absent, alias |-> Absent]
  /\ before = fs
  /\ stdout = <<>>
  /\ fsops = <<>>
  /\ emitted = <<>>
  /\ figs = [i \in Figures |-> Unread]
  /\ glyph \in GlyphWidths
  /\ clock = 0
  /\ run = 1
  /\ prev = NoRun

\* One call of a helper on the document, recorded with the cursor it found.
Called(what, num, p) ==
  /\ state = "building"
  /\ Len(emitted) < MaxCalls
  /\ pdf' = p
  /\ emitted' = Append(emitted, Entry(what, num, pdf))
  /\ UNCHANGED <<pc, state, err, refIdx, fs, stdout, fsops, clock, figs, inputs>>

CallSectionHeading ==
  \E n \in {1, 8} : Called("section_heading", n, section_heading(pdf, n, 30))

CallSubsection == Called("subsection", 0, subsection(pdf, 30))

CallBodyText ==
  \E c \in TextLengths : Called("body_text", 0, body_text(pdf, c, glyph))

CallBullet ==
  \E c \in TextLengths : Called("bullet", 0, bullet(pdf, c, glyph))

CallAddFigure ==
  \E w \in Widths, a \in HelperAspects, c \in CaptionLengths :
    Called("add_figure", 0, add_figure(pdf, a, c, w, glyph))

NextHelpers ==
  \/ CallSectionHeading
  \/ CallSubsection
  \/ CallBodyText
  \/ CallBullet
  \/ CallAddFigure

SpecHelpers == InitHelpers /\ [][NextHelpers]_vars

\* ------------------------------------------------------------------------
\* Properties
\* ------------------------------------------------------------------------
Written(f) == f.kind = "pdf" /\ f.pages > 0 /\ Len(f.content) > 0

OpsOn(op) == {i \in DOMAIN fsops : fsops[i].op = op}

\* C1: after a successful run both output files exist, are non-empty and
\* identical; the document was written by exactly one output call and the
\* alias came from exactly one copy of the primary file; and the alias path
\* only ever changes in the copy step, to what the primary path holds (or
\* to a truncated file when that copy fails part-way).
C1_TwoIdenticalOutputs ==
  /\ [](Done => /\ Written(fs.primary)
                /\ Written(fs.alias)
                /\ fs.alias = fs.primary
                /\ Cardinality(OpsOn("output")) = 1
                /\ Cardinality(OpsOn("copy2")) = 1)
  /\ [][fs'.alias # fs.alias =>
          /\ At("copy2")
          /\ fs'.alias \in {fs.primary, Truncated}
          /\ pdf' = pdf]_vars

C1_Witness ==
  /\ Done
  /\ before.alias = Old
  /\ fs.alias.kind = "pdf"
  /\ fs.alias.pages >= 2

\* C2: a run that finds a figure file missing never gets as far as the
\* output call, and in a run that failed loading a figure both output paths
\* hold what they held before the run, no file operation was attempted and
\* nothing was printed.
C2_MissingFigureWritesNothing ==
  /\ (\E i \in Figures : figs[i] = Missing) => (err = "image" /\ state = "failed")
  /\ err = "image" =>
       /\ \E i \in Figures : figs[i] = Missing
       /\ fs = before
       /\ fsops = <<>>
       /\ stdout = <<>>
       /\ state = "failed"

C2_Witness ==
  /\ err = "image"
  /\ figs[1].exists
  /\ ~figs[3].exists
  /\ before.primary = Old
  /\ pdf.page >= 2

HeadingItems == SelectSeq(pdf.drawn, LAMBDA it : it.txt.tag = "section_heading")

NumSections == 8

\* C3: the section headings drawn so far are numbered 1, 2, 3, ... in the
\* order drawn, and a complete run has drawn exactly the eight headings
\* 1..8.
C3_HeadingsOnceAscending ==
  /\ \A i \in 1..Len(HeadingItems) : HeadingItems[i].txt.num = i
  /\ Len(HeadingItems) <= NumSections
  /\ Done => Len(HeadingItems) = NumSections

C3_Witness ==
  /\ Done
  /\ Len(HeadingItems) = NumSections
  /\ HeadingItems[NumSections].page > HeadingItems[1].page

\* The phase a completed statement belongs to; add_page and set_font occur
\* in more than one phase and are ranked 0.
PhaseRank(e) ==
  CASE e.op \in {"new", "alias_nb_pages", "set_auto_page_break", "set_margins"} -> 1
    [] e.op \in {"ln", "set_text_color", "set_draw_color", "line", "multi_cell", "cell"} -> 2
    [] e.op \in {"section_heading", "subsection", "body_text", "bullet", "add_figure"} -> 3
    [] e.op = "reference" -> 4
    [] e.op = "output" -> 5
    [] e.op = "copy2" -> 6
    [] e.op = "print" -> 6 + e.num
    [] OTHER -> 0

\* The statement completed last comes after every earlier one.
LastInOrder ==
  LET n == Len(emitted)
      last == emitted[n]
  IN \A i \in 1..(n - 1) :
       LET e == emitted[i]
       IN /\ last.op # "new"
          /\ PhaseRank(e) = 0 \/ PhaseRank(last) = 0 \/ PhaseRank(e) <= PhaseRank(last)
          /\ PhaseRank(e) >= 5 => PhaseRank(e) < PhaseRank(last)
          /\ (e.op = "reference" /\ last.op = "reference") => e.num < last.num
          /\ (e.op = "section_heading" /\ last.op = "section_heading") => e.num < last.num

PhasesCompleted == {PhaseRank(emitted[i]) : i \in DOMAIN emitted} \ {0}

\* C4: the statements complete in the order open, title page, sections,
\* references, finalize and write, copy, first line, second line; the last
\* four happen at most once; nothing is drawn after the document has been
\* written; and a complete run has gone through every phase, with twelve
\* reference entries after the eighth heading.
C4_PhaseOrder ==
  /\ [](/\ emitted # <<>> => (emitted[1].op = "new" /\ LastInOrder)
        /\ Done => /\ PhasesCompleted = 1..8
                   /\ Cardinality({i \in DOMAIN emitted : emitted[i].op = "reference"})
                        = Len(references))
  /\ [][state = "finalized" => pdf'.drawn = pdf.drawn]_vars

C4_Witness ==
  /\ Done
  /\ PhasesCompleted = 1..8
  /\ emitted[Len(emitted)].op = "print" /\ emitted[Len(emitted)].num = 2

HeaderTexts == {i \in DOMAIN pdf.drawn : pdf.drawn[i].txt.tag = "header"}
HeaderRules ==
  {i \in DOMAIN pdf.drawn : pdf.drawn[i].kind = "line" /\ pdf.drawn[i].color = <<180, 180, 180>>}

ExactlyOnePerPage(items, seq, first, last) ==
  /\ \A i \in items : seq[i].page \in first..last
  /\ \A i, j \in items : seq[i].page = seq[j].page => i = j
  /\ Cardinality(items) = IF last >= first THEN last - first + 1 ELSE 0

\* C5: page 1 carries no running header, and every page from 2 up to the
\* current one carries exactly one header text and one separator line,
\* drawn before anything else on that page.
C5_HeaderOnAllButFirstPage ==
  /\ ExactlyOnePerPage(HeaderTexts, pdf.drawn, 2, pdf.page)
  /\ ExactlyOnePerPage(HeaderRules, pdf.drawn, 2, pdf.page)
  /\ \A i \in HeaderTexts :
       /\ i > 1
       /\ pdf.drawn[i - 1].page = pdf.drawn[i].page - 1
       /\ i + 1 \in HeaderRules
       /\ pdf.drawn[i].font = FONT_SMALL

\* The first thing drawn on a page, after its header, is item i.
FirstOnPage(i) == i > 2 /\ (i - 1) \in HeaderRules

\* Pages started in all three ways: by add_page in build_report (page 2),
\* by add_figure's check (an image first on its page, its estimate not
\* fitting where the previous page ended), and by an automatic break in
\* the middle of a paragraph.
C5_Witness ==
  /\ Done
  /\ pdf.page >= 4
  /\ \E i \in DOMAIN pdf.drawn :
       FirstOnPage(i) /\ pdf.drawn[i].kind = "image"
  /\ \E i \in DOMAIN pdf.drawn :
       FirstOnPage(i) /\ pdf.drawn[i].txt.tag = "body_text" /\ pdf.drawn[i].txt.part > 1
  /\ \E i \in DOMAIN pdf.drawn :
       FirstOnPage(i) /\ pdf.drawn[i].txt.tag = "section_heading" /\ pdf.drawn[i].page = 2

FooterItems(doc) == {i \in DOMAIN doc.content : doc.content[i].txt.tag = "footer"}

\* C6: in the written document every page 1..Total carries exactly one
\* footer, which shows that page's own number and the final page count, and
\* no text still contains the page-count placeholder.
C6_FooterOnEveryPageResolved ==
  fs.primary.kind = "pdf" =>
    LET doc == fs.primary
    IN /\ doc.pages >= 1
       /\ ExactlyOnePerPage(FooterItems(doc), doc.content, 1, doc.pages)
       /\ \A i \in FooterItems(doc) :
            /\ doc.content[i].txt.num = doc.content[i].page
            /\ doc.content[i].txt.total = doc.pages
       /\ \A i \in DOMAIN doc.content : doc.content[i].txt.nb = ""

C6_Witness ==
  /\ state = "finalized"
  /\ fs.primary.kind = "pdf"
  /\ fs.primary.pages >= 4
  /\ \E i \in FooterItems(fs.primary) :
       fs.primary.content[i].page = 1 /\ fs.primary.content[i].txt.total = fs.primary.pages

BothLines == <<<<"Generated", OUTPUT_PRIMARY>>, <<"Copied to", OUTPUT_COPY>>>>

IsPrefix(s, t) == Len(s) <= Len(t) /\ \A i \in 1..Len(s) : s[i] = t[i]

\* C7: a step that raises leaves the run failed at once; the failing file
\* operation is the last one attempted (a failed write is never followed by
\* the copy), nothing has been printed, and from a failed run nothing
\* changes any more: no block is emitted, no file is touched, no line is
\* printed.
C7_FirstErrorEndsRun ==
  /\ [](/\ err # "none" <=> state = "failed"
        /\ \A i \in DOMAIN fsops : fsops[i].outcome # "ok" => (i = Len(fsops) /\ state = "failed")
        /\ err = "image" => fsops = <<>>
        /\ err = "write" => (OpsOn("copy2") = {} /\ Len(fsops) = 1 /\ fs.alias = before.alias)
        /\ err = "copy" => (Len(fsops) = 2 /\ fsops[2].outcome # "ok")
        /\ state = "failed" => (stdout = <<>> /\ ~Done))
  /\ [][state = "failed" =>
          /\ state' = "failed"
          /\ <<pdf, emitted, fs, fsops, stdout, pc>>' = <<pdf, emitted, fs, fsops, stdout, pc>>]_vars

C7_Witness ==
  /\ state = "failed"
  /\ err = "write"
  /\ fs.primary = Truncated
  /\ before.primary = Old
  /\ Len(fsops) = 1

\* C8: what has been printed is always a prefix of the two lines
\* "Generated: <primary>", "Copied to: <alias>"; a completed run has printed
\* exactly these two; and whenever a line has been printed, both files have
\* been written by this run (one successful write, one successful copy).
C8_ConfirmationsAfterBothFiles ==
  /\ IsPrefix(stdout, BothLines)
  /\ Done => stdout = BothLines
  /\ stdout # <<>> =>
       /\ Written(fs.primary)
       /\ Written(fs.alias)
       /\ Len(fsops) = 2
       /\ \A i \in DOMAIN fsops : fsops[i].outcome = "ok"

C8_Witness ==
  /\ stdout = <<<<"Generated", OUTPUT_PRIMARY>>>>
  /\ Written(fs.alias)
  /\ ~Done

SameButDate(f, g) == [f EXCEPT !.created = 0] = [g EXCEPT !.created = 0]

\* The run so far retraces the previous one: the same statements in the same
\* order, and a document that is no longer than the one it produced.
Retraces ==
  /\ IsPrefix(emitted, prev.emitted)
  /\ pdf.page <= prev.pages
  /\ state # "notbuilt" => Len(pdf.drawn) <= Len(prev.primary.content)

\* C9 as stated: a completed run after a completed run with the same
\* figure files has emitted the same statements, ends on the same page
\* count, and leaves both files (every item drawn, with its page and
\* position) exactly as the earlier run left them.
C9_RerunIdentical ==
  (run > 1 /\ Done /\ prev.valid) =>
    /\ emitted = prev.emitted
    /\ pdf.page = prev.pages
    /\ fs.primary = prev.primary
    /\ fs.alias = prev.alias

\* C9, amended: a run after a completed run with the same figure files
\* retraces it statement by statement, whatever the output paths held
\* when it started, and when it completes it has emitted the same
\* statements, ends on the same page count and leaves both files equal to
\* the earlier run's except for the creation date stamped into them.
C9_RerunIdenticalButDate ==
  (run > 1 /\ prev.valid) =>
    /\ Retraces
    /\ Done =>
         /\ emitted = prev.emitted
         /\ pdf.page = prev.pages
         /\ SameButDate(fs.primary, prev.primary)
         /\ SameButDate(fs.alias, prev.alias)

C9_Witness ==
  /\ run > 1
  /\ Done
  /\ prev.valid
  /\ fs.primary.created # prev.primary.created
  /\ fs.primary.pages >= 4
  /\ before.primary.kind = "pdf"

LifecycleRank(s) ==
  CASE s = "notbuilt" -> 0
    [] s = "building" -> 1
    [] s = "finalized" -> 2
    [] OTHER -> 3

\* C10: the lifecycle never goes back (not built, building, finalized,
\* with failed reachable from building and finalized and left by nothing),
\* and every run eventually is failed or is finalized with both files
\* written.
C10_LifecycleForwardAndEnds ==
  /\ [][/\ LifecycleRank(state') >= LifecycleRank(state)
        /\ state' # state => (state # "failed" /\ state' # "notbuilt")
        /\ (state = "notbuilt" /\ state' # state) => state' = "building"]_vars
  /\ <>(\/ state = "failed"
        \/ state = "finalized" /\ Written(fs.primary) /\ Written(fs.alias))

C10_Witness ==
  /\ state = "finalized"
  /\ Done
  /\ refIdx = Len(references) + 1
  /\ Written(fs.alias)

\* ------------------------------------------------------------------------
\* Figures
\* ------------------------------------------------------------------------
\* The images placed so far, and the add_figure calls completed so far:
\* the k-th image belongs to the k-th call.
Images == SelectSeq(pdf.drawn, LAMBDA it : it.kind = "image")

FigureCallAt(k) ==
  CHOOSE i \in DOMAIN emitted :
    /\ emitted[i].op = "add_figure"
    /\ Cardinality({j \in 1..i : emitted[j].op = "add_figure"}) = k

NumFigureCalls == Cardinality({i \in DOMAIN emitted : emitted[i].op = "add_figure"})

\* The page the cursor is on when statement i has finished.
PageAfter(i) == IF i < Len(emitted) THEN emitted[i + 1].page ELSE pdf.page

\* The overflow check of a call that found the cursor at y, for width w.
EstimateOverflows(y, w) == y + EstHeight(w) > EST_LIMIT

\* The lines of the caption drawn for the k-th image.
CaptionLines(k) ==
  LET at == CHOOSE i \in DOMAIN pdf.drawn :
              /\ pdf.drawn[i].kind = "image"
              /\ Cardinality({j \in 1..i : pdf.drawn[j].kind = "image"}) = k
      later == {j \in DOMAIN pdf.drawn : j > at /\ pdf.drawn[j].kind = "image"}
  IN {i \in DOMAIN pdf.drawn :
        /\ i > at
        /\ \A j \in later : i < j
        /\ pdf.drawn[i].txt.tag = "caption"}

\* The image and its caption fit on a fresh page below the running header.
FitsFreshPage(k) ==
  Opened.y + Images[k].h + 20 + 50 * Cardinality(CaptionLines(k)) <= page_break_trigger(pdf)

\* C11 as stated: a completed add_figure call has put its image on a later
\* page than the one it started on exactly when the cursor plus the
\* estimated height exceeded 270 mm, on the same page otherwise, and has
\* added at most one page.
C11_NewPageIffEstimate ==
  state # "failed" =>
    \A k \in 1..NumFigureCalls :
      LET e == emitted[FigureCallAt(k)]
          img == Images[k]
      IN /\ (img.page > e.page) <=> EstimateOverflows(e.y, img.w)
         /\ ~EstimateOverflows(e.y, img.w) => img.page = e.page
         /\ PageAfter(FigureCallAt(k)) <= e.page + 1

\* C11, amended: the image is on a later page than the call started on
\* exactly when the estimate exceeded 270 mm or the image itself did not fit
\* above the automatic page-break trigger; for an image no taller than
\* 0.6 x width that is exactly when the estimate exceeded 270 mm; and a call
\* whose image and caption fit on a fresh page adds at most one page, on
\* which the image then stands directly below the header.
C11_NewPageIffEstimateOrTooTall ==
  state # "failed" =>
    \A k \in 1..NumFigureCalls :
      LET e == emitted[FigureCallAt(k)]
          img == Images[k]
          est == EstimateOverflows(e.y, img.w)
          tall == e.y + img.h > page_break_trigger(pdf)
      IN /\ (img.page > e.page) <=> (est \/ tall)
         /\ 10 * img.h <= 6 * img.w => ((img.page > e.page) <=> est)
         /\ FitsFreshPage(k) =>
              /\ PageAfter(FigureCallAt(k)) <= e.page + 1
              /\ img.page > e.page => img.y = Opened.y
              /\ img.page = e.page => img.y = e.y

\* A call whose estimate exceeded the limit by half a millimetre has put
\* its image at the top of the next page.
C11_Witness ==
  /\ NumFigureCalls = 1
  /\ LET e == emitted[FigureCallAt(1)]
         img == Images[1]
     IN /\ e.y + EstHeight(img.w) = EST_LIMIT + 5
        /\ 10 * img.h <= 6 * img.w
        /\ img.page = e.page + 1
        /\ img.y = Opened.y
        /\ pdf.page = img.page

\* The widths the report requests for its five figures, in order.
ReportWidths == <<1600, 1500, 1600, 1500, 1600>>

\* C12: every image of the report is placed, with the width the report
\* requests for it, where the cursor plus the estimated height (0.6 x width
\* + 15 mm) is at most 270 mm, also at the top of a page the check has
\* forced; and 270 mm lies strictly below the automatic page-break trigger
\* of 277 mm, so the estimated block ends above the trigger.
C12_FiguresPlacedWithinLimit ==
  /\ EST_LIMIT < PAGE_H - MARGIN
  /\ PAGE_H - MARGIN = 2770
  /\ page_break_trigger(pdf) = PAGE_H - MARGIN
  /\ Len(Images) <= NumFigures
  /\ \A k \in 1..Len(Images) :
       /\ Images[k].w = ReportWidths[k]
       /\ Images[k].y + EstHeight(Images[k].w) <= EST_LIMIT
       /\ Images[k].y + EstHeight(Images[k].w) < page_break_trigger(pdf)

\* A complete run with all five images placed, one of them at the top of a
\* page that the check forced and one further down a page.
C12_Witness ==
  /\ Done
  /\ Len(Images) = NumFigures
  /\ NumFigureCalls = NumFigures
  /\ \E k \in 1..NumFigures :
       /\ EstimateOverflows(emitted[FigureCallAt(k)].y, Images[k].w)
       /\ Images[k].page = emitted[FigureCallAt(k)].page + 1
       /\ Images[k].y = Opened.y
  /\ \E k \in 1..NumFigures :
       /\ Images[k].page = emitted[FigureCallAt(k)].page
       /\ Images[k].y > Opened.y

\* The k-th call drew an image no taller than 0.6 x width and a caption of
\* at most three lines.
AsEstimated(k) ==
  /\ 10 * Images[k].h <= 6 * Images[k].w
  /\ Cardinality(CaptionLines(k)) <= 3

\* C13: a completed add_figure call whose image is no taller than 0.6 x
\* width and whose caption has at most three lines has drawn the image and
\* every line of the caption on one page, and ends on that page.
C13_FigureAndCaptionTogether ==
  state # "failed" =>
    \A k \in 1..NumFigureCalls :
      AsEstimated(k) =>
        /\ \A i \in CaptionLines(k) :
             /\ pdf.drawn[i].page = Images[k].page
             /\ pdf.drawn[i].y >= Images[k].y + Images[k].h
             /\ Cardinality(CaptionLines(k)) =
                  WrapLines(pdf.drawn[i].txt.chars, CONTENT_W, FONT_ITALIC, glyph)
        /\ CaptionLines(k) # {}
        /\ PageAfter(FigureCallAt(k)) = Images[k].page

\* A call that found the estimate exactly at the limit, with an image of
\* exactly 0.6 x width and a caption of three lines, all on the page it
\* started on.
C13_Witness ==
  /\ NumFigureCalls = 1
  /\ AsEstimated(1)
  /\ LET e == emitted[FigureCallAt(1)]
         img == Images[1]
     IN /\ e.y + EstHeight(img.w) = EST_LIMIT
        /\ 10 * img.h = 6 * img.w
        /\ Cardinality(CaptionLines(1)) = 3
        /\ img.page = e.page
        /\ pdf.page = e.page

\* C14: every image is placed at x = (210 mm - w) / 2, so that the gap to
\* the left page edge equals the gap to the right one, and an image no
\* wider than the content width lies between the two 20 mm margins.
C14_ImageCentred ==
  \A k \in 1..Len(Images) :
    LET img == Images[k]
    IN /\ 2 * img.x = PAGE_W - img.w
       /\ img.x = PAGE_W - (img.x + img.w)
       /\ img.w <= CONTENT_W =>
            /\ img.x >= MARGIN
            /\ img.x + img.w <= PAGE_W - MARGIN

\* An image of 160 mm placed with 25 mm on either side.
C14_Witness ==
  /\ NumFigureCalls = 1
  /\ Images[1].w = CONTENT_W - 100
  /\ Images[1].x = 250
  /\ Images[1].x + Images[1].w = PAGE_W - 250

\* ------------------------------------------------------------------------
\* Typography
\* ------------------------------------------------------------------------
TextItems == {i \in DOMAIN pdf.drawn : pdf.drawn[i].kind = "text"}

\* The font fixed for each kind of block (all of the Helvetica family).
KindFont(tag) ==
  CASE tag = "section_heading" -> FONT_H2
    [] tag = "subsection" -> FONT_H3
    [] tag \in {"body_text", "bullet", "dash", "reference"} -> FONT_BODY
    [] tag = "caption" -> FONT_ITALIC
    [] tag \in {"header", "footer"} -> FONT_SMALL
    [] OTHER -> NoFont

\* Item i is the first thing drawn after the header of a new page.
AfterPageBreak(i) ==
  /\ i > 1
  /\ pdf.drawn[i - 1].kind = "line"
  /\ pdf.drawn[i - 1].color = <<180, 180, 180>>
  /\ pdf.drawn[i - 1].page = pdf.drawn[i].page

\* C15: every line of text drawn for a section heading, subsection,
\* paragraph, bullet, caption, reference entry, header or footer is in the
\* font fixed for its kind, whatever was drawn before it.
C15_FontFixedPerKind ==
  \A i \in TextItems :
    pdf.drawn[i].txt.tag # "title" =>
      /\ KindFont(pdf.drawn[i].txt.tag) # NoFont
      /\ pdf.drawn[i].font = KindFont(pdf.drawn[i].txt.tag)

\* A complete run in which a page break fell inside a reference entry and
\* inside a paragraph: the lines continuing on the new page, drawn right
\* after the 9pt header, are in the 11pt body font.
C15_Witness ==
  /\ Done
  /\ \E i \in TextItems :
       /\ pdf.drawn[i].txt.tag = "reference"
       /\ pdf.drawn[i].txt.part > 1
       /\ AfterPageBreak(i)
       /\ pdf.drawn[i].font = FONT_BODY
  /\ \E i \in TextItems :
       /\ pdf.drawn[i].txt.tag = "body_text"
       /\ pdf.drawn[i].txt.part > 1
       /\ AfterPageBreak(i)
       /\ pdf.drawn[i].font = FONT_BODY

Black == <<0, 0, 0>>

\* C16: every line of a paragraph, bullet or reference entry is drawn in
\* black, also where it continues below the grey header of a new page, and
\* section_heading, subsection and add_figure leave black selected.
C16_BodyTextBlack ==
  /\ \A i \in TextItems :
       pdf.drawn[i].txt.tag \in {"body_text", "bullet", "dash", "reference"} =>
         pdf.drawn[i].color = Black
  /\ emitted # <<>> /\ emitted[Len(emitted)].op \in {"section_heading", "subsection", "add_figure"}
       => pdf.tc = Black

\* A complete run in which a paragraph continues in black directly below a
\* header drawn in (100,100,100), after a footer drawn in (140,140,140).
C16_Witness ==
  /\ Done
  /\ \E i \in TextItems :
       /\ pdf.drawn[i].txt.tag = "body_text"
       /\ pdf.drawn[i].txt.part > 1
       /\ AfterPageBreak(i)
       /\ pdf.drawn[i].color = Black
       /\ i > 3
       /\ pdf.drawn[i - 2].txt.tag = "header"
       /\ pdf.drawn[i - 2].color = <<100, 100, 100>>
       /\ pdf.drawn[i - 3].txt.tag = "footer"
       /\ pdf.drawn[i - 3].color = <<140, 140, 140>>

\* ------------------------------------------------------------------------
\* Bullets
\* ------------------------------------------------------------------------
DASH_W == 60

\* C17: the dash of a bullet is drawn in a 6 mm cell at the left margin;
\* the first line of the text stands beside it and every line of the text
\* starts 6 mm right of the left margin in a column of width CONTENT_W - 6,
\* which ends at the right margin; and after a helper has returned the
\* horizontal cursor is at the left margin.
C17_BulletHangingIndent ==
  /\ \A i \in TextItems :
       LET it == pdf.drawn[i]
       IN /\ it.txt.tag = "dash" =>
               /\ it.x = MARGIN
               /\ it.w = DASH_W
               /\ i < Len(pdf.drawn)
               /\ pdf.drawn[i + 1].txt.tag = "bullet"
               /\ pdf.drawn[i + 1].txt.part = 1
               /\ pdf.drawn[i + 1].page = it.page
               /\ pdf.drawn[i + 1].y = it.y
          /\ it.txt.tag = "bullet" =>
               /\ it.x = MARGIN + DASH_W
               /\ it.w = CONTENT_W - DASH_W
               /\ DASH_W + it.w <= CONTENT_W
               /\ it.x + it.w <= PAGE_W - MARGIN
  /\ emitted # <<>> => pdf.x = pdf.lMargin /\ pdf.lMargin = MARGIN

\* A bullet whose text wrapped to several lines across a page break, every
\* one of them at the hanging indent, with the cursor back at the margin.
C17_Witness ==
  /\ Len(emitted) = 1
  /\ emitted[1].op = "bullet"
  /\ pdf.x = MARGIN
  /\ \E i, j \in TextItems :
       /\ pdf.drawn[i].txt.tag = "bullet"
       /\ pdf.drawn[j].txt.tag = "bullet"
       /\ pdf.drawn[j].txt.part > 2
       /\ pdf.drawn[j].page = pdf.drawn[i].page + 1
       /\ pdf.drawn[j].x = pdf.drawn[i].x
       /\ pdf.drawn[i].x = MARGIN + DASH_W

\* ------------------------------------------------------------------------
\* Order of the figures, and the title page
\* ------------------------------------------------------------------------
HeadingEntry(n) ==
  {i \in DOMAIN emitted : emitted[i].op = "section_heading" /\ emitted[i].num = n}

\* Page 1 carries the title block with its rule (from 60 to 150 mm) and
\* the footer, and nothing else.
TitlePageAlone ==
  \A i \in DOMAIN pdf.drawn :
    LET it == pdf.drawn[i]
    IN /\ it.txt.tag = "title" => it.page = 1
       /\ it.page = 1 => \/ it.txt.tag \in {"title", "footer"}
                         \/ it.kind = "line" /\ it.x = 600 /\ it.w = 900

\* C18: the figures are emitted as fig1, fig2, ... in ascending order, each
\* once, each after section heading 5 and before section heading 6, all five
\* in a complete run; page 1 holds the title page alone, and section 1
\* begins on page 2, directly after the explicit page break.
C18_FiguresInSection5TitleAlone ==
  /\ \A k \in 1..NumFigureCalls :
       LET i == FigureCallAt(k)
       IN /\ emitted[i].num = k
          /\ \E j \in HeadingEntry(5) : j < i
          /\ \A j \in HeadingEntry(6) : i < j
  /\ Done => NumFigureCalls = NumFigures /\ HeadingEntry(6) # {}
  /\ TitlePageAlone
  /\ \A i \in HeadingEntry(1) :
       /\ emitted[i].page = 2
       /\ emitted[i - 1].op = "add_page"
       /\ emitted[i - 1].page = 1
  /\ \A k \in DOMAIN HeadingItems :
       /\ HeadingItems[k].page >= 2
       /\ HeadingItems[k].txt.num = 1 => HeadingItems[k].page = 2

\* A complete run: five figures, and section 1 on page 2.
C18_Witness ==
  /\ Done
  /\ NumFigureCalls = NumFigures
  /\ Len(Images) = NumFigures
  /\ \E i \in HeadingEntry(1) : emitted[i].page = 2
  /\ \E i \in DOMAIN pdf.drawn : pdf.drawn[i].txt.tag = "title" /\ pdf.drawn[i].page = 1
  /\ HeadingItems[1].txt.num = 1 /\ HeadingItems[1].page = 2
====
